---- MODULE Spec2Model ----
(***************************************************************************)
(* Model of syfertext/tokenizer.py: Tokenizer.__call__ and the affix /     *)
(* infix / exception cascade (_tokenize, _split_affixes, _attach_tokens     *)
(* and the _get_*_token_meta helpers).                                      *)
(*                                                                          *)
(* Positions are 0-based as in the Python code; text is a sequence of       *)
(* characters, so Python's text[k] is text[k + 1] here.                     *)
(***************************************************************************)
EXTENDS Integers, Sequences, FiniteSets, TLC

\* ------------------------------------------------------------------ bounds
\* Longest document that is tokenized.
MaxLen == 4

\* ------------------------------------------------------------ the alphabet
\* " " is white space, "a" a letter, "q" a quote-like punctuation mark (the
\* character the prefix and suffix patterns are about), "-" a hyphen (the
\* character the infix patterns are about).
Chars == {" ", "a", "q", "-"}

\* str.isspace() on one character.
isspace(c) == c = " "

\* Python's None, as the end_pos of the last token (text[pos:None]) and as
\* the token_meta a helper returns when the match is empty.
None == -1

\* All documents of at most MaxLen characters.
Texts == UNION {[1..n -> Chars] : n \in 0..MaxLen}

\* Python's s[a:b] for 0 <= a, b <= len(s).
Slice(s, a, b) == SubSeq(s, a + 1, b)

\* Python's text[start:end + 1], with end = None reading to the end of text.
EffEnd(t, tm) == IF tm.end_pos = None THEN Len(t) - 1 ELSE tm.end_pos

\* Python's text[start_pos:end_pos + 1] for a TokenMeta (a slice never reads
\* past the end of the text).
Substr(t, tm) ==
    LET a == IF tm.start_pos > Len(t) THEN Len(t) ELSE tm.start_pos
        b == IF EffEnd(t, tm) + 1 > Len(t) THEN Len(t) ELSE EffEnd(t, tm) + 1
    IN  Slice(t, a, b)

\* class TokenMeta.
TokenMeta(start_pos, end_pos, space_after, is_space) ==
    [start_pos |-> start_pos, end_pos |-> end_pos,
     space_after |-> space_after, is_space |-> is_space]

\* ------------------------------------------------- the matcher configuration
\* prefix_search: None, re.compile("^q").search or re.compile("^q*").search
\* (the last one matches the empty string when there is no leading "q").
PrefixSearches == {"None", "^q", "^q*"}
\* suffix_search: None, re.compile("q$").search or re.compile("q*$").search.
SuffixSearches == {"None", "q$", "q*$"}
\* infix_finditer: re.compile("-").finditer (no match in a string without a
\* hyphen), re.compile("-*").finditer (empty matches wherever no hyphen
\* starts) or re.compile("^").finditer (one empty match at the start of the
\* string).
InfixFinditers == {"-", "-*", "^"}

\* The exception key of the rule tables that are tried.
Key == <<"a", "q">>

\* rules: no exception at all, or the one key with a list of sub-tokens:
\* consistent ("a" + "q"), too short, too long, or empty.
RuleTables ==
    { {},
      {[key |-> Key, subs |-> <<[ORTH |-> <<"a">>], [ORTH |-> <<"q">>]>>]},
      {[key |-> Key, subs |-> <<[ORTH |-> <<"a">>]>>]},
      {[key |-> Key, subs |-> <<[ORTH |-> <<"a">>], [ORTH |-> <<"q", "q">>]>>]},
      {[key |-> Key, subs |-> <<>>]} }

VARIABLES
    text,            \* the document, immutable during the call
    prefix_search,   \* self.prefix_search
    suffix_search,   \* self.suffix_search
    infix_finditer,  \* self.infix_finditer
    special_cases,   \* self.special_cases
    container,       \* doc.container
    pc,              \* position in __call__ / _tokenize
    i,               \* loop index of __call__
    pos,             \* pos of __call__
    is_space,        \* is_space of __call__
    substring,       \* substring of _split_affixes
    spos,            \* pos of _split_affixes
    prefixes,        \* prefixes of _split_affixes
    suffixes,        \* suffixes of _split_affixes
    infixes,         \* infixes of _split_affixes
    special_tokens,  \* special_tokens of _split_affixes
    space_after,     \* token_meta.space_after handed to _tokenize
    ret,             \* where __call__ resumes after _tokenize
    outcome,         \* which branch of lines 336-345 the run took
    core,            \* substring as it was when line 336 was reached
    iters,           \* iterations of the while loop at line 318 for this run
    run_start,       \* start offset of the run handed to _tokenize
    run_len,         \* its length
    base             \* len(doc.container) when _tokenize was entered

config == <<text, prefix_search, suffix_search, infix_finditer, special_cases>>
scan == <<i, pos, is_space>>
frame == <<substring, spos, prefixes, suffixes, infixes, special_tokens,
           space_after, ret, outcome, core, iters, run_start, run_len, base>>
vars == <<config, container, pc, scan, frame>>

\* ------------------------------------------------------------- the matchers
\* Length of the longest run of character c at the start of s.
LeadRun(s, c) ==
    CHOOSE k \in 0..Len(s) :
        /\ \A j \in 1..k : s[j] = c
        /\ (k = Len(s) \/ s[k + 1] # c)

\* Length of the longest run of character c at the end of s.
TrailRun(s, c) ==
    CHOOSE k \in 0..Len(s) :
        /\ \A j \in (Len(s) - k + 1)..Len(s) : s[j] = c
        /\ (k = Len(s) \/ s[Len(s) - k] # c)

\* Tokenizer.find_prefix: the length of the match, 0 without a match.
find_prefix(s) ==
    IF prefix_search = "None" THEN 0
    ELSE IF prefix_search = "^q"
         THEN (IF Len(s) > 0 /\ s[1] = "q" THEN 1 ELSE 0)
         ELSE LeadRun(s, "q")

\* Tokenizer.find_suffix: the length of the match, 0 without a match.
find_suffix(s) ==
    IF suffix_search = "None" THEN 0
    ELSE IF suffix_search = "q$"
         THEN (IF Len(s) > 0 /\ s[Len(s)] = "q" THEN 1 ELSE 0)
         ELSE TrailRun(s, "q")

\* re.finditer from offset p on: the matches (start, end) in order.
RECURSIVE FindIter(_, _, _)
FindIter(mode, s, p) ==
    IF mode = "-"
    THEN IF p >= Len(s) THEN <<>>
         ELSE IF s[p + 1] = "-"
              THEN <<[start |-> p, end |-> p + 1]>> \o FindIter(mode, s, p + 1)
              ELSE FindIter(mode, s, p + 1)
    ELSE IF mode = "-*"
    THEN LET n == LeadRun(Slice(s, p, Len(s)), "-") IN
         IF n > 0
         THEN <<[start |-> p, end |-> p + n]>> \o FindIter(mode, s, p + n)
         ELSE <<[start |-> p, end |-> p]>> \o
              (IF p >= Len(s) THEN <<>> ELSE FindIter(mode, s, p + 1))
    ELSE <<[start |-> 0, end |-> 0]>>

\* Tokenizer.find_infix: the list of matches.
find_infix(s) == FindIter(infix_finditer, s, 0)

\* substring in self.special_cases
InSpecialCases(s) == \E r \in special_cases : r.key = s

\* self.special_cases[substring]
SpecialCase(s) == (CHOOSE r \in special_cases : r.key = s).subs


\* ------------------------------------------------- the token-meta helpers
\* A _get_prefix_token_meta that leaves pos on the prefix's last character.
get_prefix_token_meta_pos_off_by_one(sub, p) ==
    LET pre_len == find_prefix(sub)
        end_pos == p + pre_len - 1
    IN  IF pre_len = 0
        THEN [token_meta |-> <<>>, substring |-> sub, pos |-> p]
        ELSE [token_meta |-> <<TokenMeta(p, end_pos, FALSE, FALSE)>>,
              substring |-> Slice(sub, pre_len, Len(sub)),
              pos |-> end_pos]

\* Tokenizer._get_prefix_token_meta. token_meta is a list of zero or one
\* TokenMeta: the empty list stands for the None of line 421.
get_prefix_token_meta(sub, p) ==
    LET pre_len == find_prefix(sub)
        end_pos == p + pre_len - 1
    IN  IF pre_len = 0
        THEN [token_meta |-> <<>>, substring |-> sub, pos |-> p]
        ELSE [token_meta |-> <<TokenMeta(p, end_pos, FALSE, FALSE)>>,
              substring |-> Slice(sub, pre_len, Len(sub)),
              pos |-> end_pos + 1]

\* Line 453 without the "- 1": the suffix span ends one character late.
get_suffix_token_meta_end_one_late(sub, p) ==
    LET suff_len == find_suffix(sub)
        pos_suffix == p + Len(sub) - suff_len
        end_pos_suffix == pos_suffix + suff_len
    IN  IF suff_len = 0
        THEN [token_meta |-> <<>>, substring |-> sub]
        ELSE [token_meta |-> <<TokenMeta(pos_suffix, end_pos_suffix, FALSE, FALSE)>>,
              substring |-> Slice(sub, 0, Len(sub) - suff_len)]

\* Tokenizer._get_suffix_token_meta, with the same convention for None.
get_suffix_token_meta(sub, p) ==
    LET suff_len == find_suffix(sub)
        pos_suffix == p + Len(sub) - suff_len
        end_pos_suffix == pos_suffix + suff_len - 1
    IN  IF suff_len = 0
        THEN [token_meta |-> <<>>, substring |-> sub]
        ELSE [token_meta |-> <<TokenMeta(pos_suffix, end_pos_suffix, FALSE, FALSE)>>,
              substring |-> Slice(sub, 0, Len(sub) - suff_len)]

\* One TokenMeta for a non-empty piece, as lines 481-493 and 495-507 do it:
\* st is the loop state (pos, end_pos, infix_tokens_metas).
InfixPiece(st, piece) ==
    IF piece = <<>> THEN st
    ELSE LET end_pos == st.pos + Len(piece) - 1
         IN  [pos |-> end_pos + 1, end_pos |-> end_pos,
              metas |-> Append(st.metas, TokenMeta(st.pos, end_pos, FALSE, FALSE))]

\* The for loop of _get_infix_token_meta from the k-th match on; offset is
\* the end of the previous match.
RECURSIVE InfixLoop(_, _, _, _, _)
InfixLoop(sub, matches, k, offset, st) ==
    IF k > Len(matches) THEN [offset |-> offset, st |-> st]
    ELSE LET m == matches[k]
             st1 == InfixPiece(st, Slice(sub, offset, m.start))
             st2 == InfixPiece(st1, Slice(sub, m.start, m.end))
         IN  InfixLoop(sub, matches, k + 1, m.end, st2)

\* Lines 510-523: the leftover after the last match starts at end_pos + 1,
\* whatever pos is.
InfixLeftover(st, rest) ==
    IF rest = <<>> THEN st
    ELSE LET p == st.end_pos + 1
             end_pos == p + Len(rest) - 1
         IN  [pos |-> end_pos + 1, end_pos |-> end_pos,
              metas |-> Append(st.metas, TokenMeta(p, end_pos, FALSE, FALSE))]

\* Lines 477-525 of _get_infix_token_meta for the list of matches.
InfixTokens(sub, matches, p) ==
    LET r == InfixLoop(sub, matches, 1, 0,
                       [pos |-> p, end_pos |-> 0, metas |-> <<>>])
    IN  InfixLeftover(r.st, Slice(sub, r.offset, Len(sub))).metas

\* Tokenizer._get_infix_token_meta.
get_infix_token_meta(sub, p) == InfixTokens(sub, find_infix(sub), p)

\* The for loop of _get_special_cases_token_meta from the k-th entry on.
RECURSIVE SpecialLoop(_, _, _, _)
SpecialLoop(subs, k, p, metas) ==
    IF k > Len(subs) THEN metas
    ELSE LET end_pos == p + Len(subs[k].ORTH) - 1
         IN  SpecialLoop(subs, k + 1, end_pos + 1,
                         Append(metas, TokenMeta(p, end_pos, FALSE, FALSE)))

\* Tokenizer._get_special_cases_token_meta.
get_special_cases_token_meta(sub, p) == SpecialLoop(SpecialCase(sub), 1, p, <<>>)

\* reversed(suffixes)
Reversed(s) == [k \in 1..Len(s) |-> s[Len(s) + 1 - k]]

\* Lines 375-395 with the suffixes in the order they were found.
Attached_suffixes_not_reversed(sub, p, pre, suf, inf, spec) ==
    pre \o spec
        \o (IF sub # <<>>
            THEN <<TokenMeta(p, p + Len(sub) - 1, FALSE, FALSE)>>
            ELSE <<>>)
        \o inf \o suf

\* Lines 375-395 of _attach_tokens: what is appended to doc.container.
Attached(sub, p, pre, suf, inf, spec) ==
    pre \o spec
        \o (IF sub # <<>>
            THEN <<TokenMeta(p, p + Len(sub) - 1, FALSE, FALSE)>>
            ELSE <<>>)
        \o inf \o Reversed(suf)

\* Lines 398-400 left out.
SetLastSpaceAfter_noop(c, sa) == c

\* Lines 398-400 of _attach_tokens, on a non-empty container.
SetLastSpaceAfter(c, sa) == [c EXCEPT ![Len(c)].space_after = sa]

\* Lines 196-199 without the skip of the separator.
NextPos_no_skip(k, is_current_space) == k

\* Lines 196-199 of __call__: where the next run starts.
NextPos(k, is_current_space) == IF is_current_space THEN k + 1 ELSE k

\* Lines 204-205 of __call__.
NextIsSpace(p) == IF p < Len(text) THEN isspace(text[p + 1]) ELSE is_space

\* Line 318 testing the match objects instead of the lengths: a pattern
\* that can match the empty string always matches.
AffixFound_match_not_none(sub) ==
    \/ prefix_search = "^q*"
    \/ suffix_search = "q*$"
    \/ find_prefix(sub) # 0
    \/ find_suffix(sub) # 0

\* The condition of the while loop at line 318.
AffixFound(sub) == find_prefix(sub) # 0 \/ find_suffix(sub) # 0

\* ------------------------------------------------------------------- Init
Init ==
    /\ text \in Texts
    /\ prefix_search \in PrefixSearches
    /\ suffix_search \in SuffixSearches
    /\ infix_finditer \in InfixFinditers
    /\ special_cases \in RuleTables
    /\ container = <<>>
    /\ pc = "start"
    /\ i = 0
    /\ pos = 0
    /\ is_space = FALSE
    /\ substring = <<>>
    /\ spos = 0
    /\ prefixes = <<>>
    /\ suffixes = <<>>
    /\ infixes = <<>>
    /\ special_tokens = <<>>
    /\ space_after = FALSE
    /\ ret = "none"
    /\ outcome = "none"
    /\ core = <<>>
    /\ iters = 0
    /\ run_start = 0
    /\ run_len = 0
    /\ base = 0

\* ---------------------------------------------------------------- __call__
\* Line 162 with the flag left at False.
FirstIsSpace_false == FALSE

\* Line 162: is_space = text[0].isspace(), for a non-empty text.
FirstIsSpace == isspace(text[1])

\* Lines 152-162: text[0] raises IndexError on the empty document.
Call ==
    /\ pc = "start"
    /\ IF Len(text) = 0
       THEN pc' = "error" /\ UNCHANGED scan
       ELSE /\ pc' = "loop"
            /\ i' = 0
            /\ pos' = 0
            /\ is_space' = FirstIsSpace
    /\ UNCHANGED <<config, container, frame>>

\* The call self._tokenize(span, token_meta, doc) and lines 266-267, 308-313.
EnterTokenize(span, token_meta, back) ==
    /\ substring' = span
    /\ spos' = token_meta.start_pos
    /\ space_after' = token_meta.space_after
    /\ prefixes' = <<>>
    /\ suffixes' = <<>>
    /\ infixes' = <<>>
    /\ special_tokens' = <<>>
    /\ outcome' = "none"
    /\ core' = <<>>
    /\ iters' = 0
    /\ run_start' = token_meta.start_pos
    /\ run_len' = Len(span)
    /\ base' = Len(container)
    /\ ret' = back
    /\ pc' = "affix"

\* Line 208 with pos < i.
AtLastToken_strict == i = Len(text) - 1 /\ pos < i

\* Line 208.
AtLastToken == i = Len(text) - 1 /\ pos <= i

\* Lines 170-171 and 208: no change of character class at index i; the
\* loop goes on with the next index unless this is the last one.
SameClass ==
    /\ pc = "loop"
    /\ isspace(text[i + 1]) = is_space
    /\ IF AtLastToken
       THEN pc' = "tail" /\ i' = i
       ELSE IF i = Len(text) - 1
            THEN pc' = "done" /\ i' = i
            ELSE pc' = "loop" /\ i' = i + 1
    /\ UNCHANGED <<config, container, pos, is_space, frame>>

\* Lines 171-186 and 196-205: a white-space run [pos, i - 1] is closed.
CloseSpace ==
    /\ pc = "loop"
    /\ isspace(text[i + 1]) # is_space
    /\ is_space
    /\ container' = Append(container,
                           TokenMeta(pos, i - 1, isspace(text[i + 1]), is_space))
    /\ pos' = NextPos(i, isspace(text[i + 1]))
    /\ is_space' = NextIsSpace(pos')
    /\ pc' = "tail"
    /\ UNCHANGED <<config, i, frame>>

\* Lines 171-192: a run of other characters [pos, i - 1] is closed and
\* handed to _tokenize.
CloseRun ==
    /\ pc = "loop"
    /\ isspace(text[i + 1]) # is_space
    /\ ~is_space
    /\ EnterTokenize(Slice(text, pos, i),
                     TokenMeta(pos, i - 1, isspace(text[i + 1]), is_space),
                     "adjust")
    /\ UNCHANGED <<config, container, scan>>

\* Lines 196-205 after _tokenize has returned.
Adjust ==
    /\ pc = "adjust"
    /\ pos' = NextPos(i, isspace(text[i + 1]))
    /\ is_space' = NextIsSpace(pos')
    /\ pc' = "tail"
    /\ UNCHANGED <<config, container, i, frame>>

\* Line 208 false: the next iteration, or the end of the loop.
TailSkip ==
    /\ pc = "tail"
    /\ ~AtLastToken
    /\ IF i = Len(text) - 1
       THEN pc' = "done" /\ i' = i
       ELSE pc' = "loop" /\ i' = i + 1
    /\ UNCHANGED <<config, container, pos, is_space, frame>>

\* Lines 208-224: the last token is a white-space run.
TailSpace ==
    /\ pc = "tail"
    /\ AtLastToken
    /\ is_space
    /\ container' = Append(container,
                           TokenMeta(pos, None, isspace(text[i + 1]), is_space))
    /\ pc' = "done"
    /\ UNCHANGED <<config, scan, frame>>

\* Lines 208-229: the last token is handed to _tokenize; the loop and the
\* call end when it returns.
TailRun ==
    /\ pc = "tail"
    /\ AtLastToken
    /\ ~is_space
    /\ EnterTokenize(Slice(text, pos, Len(text)),
                     TokenMeta(pos, None, isspace(text[i + 1]), is_space),
                     "done")
    /\ UNCHANGED <<config, container, scan>>

\* ---------------------------------------------------------- _split_affixes
\* Lines 328-329 left out.
BreakAfterPrefix_never(hasPre, sub) == FALSE

\* Lines 328-329: after a prefix was detached, break when what remains is
\* an exception key.
BreakAfterPrefix(hasPre, sub) == hasPre /\ InSpecialCases(sub)

\* One iteration of the while loop, lines 318-334.
AffixIter ==
    /\ pc = "affix"
    /\ AffixFound(substring)
    /\ ~InSpecialCases(substring)
    /\ LET hasPre == find_prefix(substring) # 0
           p == IF hasPre
                THEN get_prefix_token_meta(substring, spos)
                ELSE [token_meta |-> <<>>, substring |-> substring, pos |-> spos]
           brk == BreakAfterPrefix(hasPre, p.substring)
           s == IF ~brk /\ find_suffix(p.substring) # 0
                THEN get_suffix_token_meta(p.substring, p.pos)
                ELSE [token_meta |-> <<>>, substring |-> p.substring]
       IN  /\ prefixes' = prefixes \o p.token_meta
           /\ suffixes' = suffixes \o s.token_meta
           /\ substring' = s.substring
           /\ spos' = p.pos
    /\ iters' = iters + 1
    /\ UNCHANGED <<config, container, pc, scan, infixes, special_tokens,
                   space_after, ret, outcome, core, run_start, run_len, base>>

\* The while loop is over: its condition is false, or line 319-320 breaks.
AffixDone == pc = "affix" /\ (~AffixFound(substring) \/ InSpecialCases(substring))

\* Lines 336-339: the remaining substring is an exception key.
ResolveSpecial ==
    /\ AffixDone
    /\ InSpecialCases(substring)
    /\ special_tokens' = get_special_cases_token_meta(substring, spos)
    /\ substring' = <<>>
    /\ outcome' = "special"
    /\ core' = substring
    /\ pc' = "attach"
    /\ UNCHANGED <<config, container, scan, spos, prefixes, suffixes, infixes,
                   space_after, ret, iters, run_start, run_len, base>>

\* Line 343 left out: the substring is kept after the infix branch.
CoreAfterInfix_kept(sub) == sub

\* Line 343: substring = "".
CoreAfterInfix(sub) == <<>>

\* Lines 341-343: the infix matcher reports matches.
ResolveInfix ==
    /\ AffixDone
    /\ ~InSpecialCases(substring)
    /\ find_infix(substring) # <<>>
    /\ infixes' = get_infix_token_meta(substring, spos)
    /\ substring' = CoreAfterInfix(substring)
    /\ outcome' = "infix"
    /\ core' = substring
    /\ pc' = "attach"
    /\ UNCHANGED <<config, container, scan, spos, prefixes, suffixes,
                   special_tokens, space_after, ret, iters, run_start, run_len,
                   base>>

\* Line 345 reached with neither branch taken.
ResolveCore ==
    /\ AffixDone
    /\ ~InSpecialCases(substring)
    /\ find_infix(substring) = <<>>
    /\ outcome' = IF substring # <<>> THEN "core" ELSE "none"
    /\ core' = substring
    /\ pc' = "attach"
    /\ UNCHANGED <<config, container, scan, substring, spos, prefixes, suffixes,
                   infixes, special_tokens, space_after, ret, iters, run_start,
                   run_len, base>>

\* ---------------------------------------------------------- _attach_tokens
\* Lines 375-402; doc.container.pop() raises IndexError on an empty list.
Attach ==
    /\ pc = "attach"
    /\ LET c == container \o Attached(substring, spos, prefixes, suffixes,
                                      infixes, special_tokens)
       IN  IF c = <<>>
           THEN container' = c /\ pc' = "error"
           ELSE container' = SetLastSpaceAfter(c, space_after) /\ pc' = ret
    /\ UNCHANGED <<config, scan, frame>>

Next ==
    \/ Call
    \/ SameClass
    \/ CloseSpace
    \/ CloseRun
    \/ Adjust
    \/ TailSkip
    \/ TailSpace
    \/ TailRun
    \/ AffixIter
    \/ ResolveSpecial
    \/ ResolveInfix
    \/ ResolveCore
    \/ Attach

Spec == Init /\ [][Next]_vars

TypeOK ==
    /\ pc \in {"start", "loop", "adjust", "tail", "affix", "attach", "done", "error"}
    /\ i \in 0..MaxLen
    /\ pos \in 0..MaxLen
    /\ iters \in 0..MaxLen


\* ================================================================ properties
\* The configurations in which every exception entry's sub-token lengths sum
\* to its key's length.
RECURSIVE OrthLen(_)
OrthLen(subs) ==
    IF subs = <<>> THEN 0 ELSE Len(Head(subs).ORTH) + OrthLen(Tail(subs))

EntriesConsistent == \A r \in special_cases : OrthLen(r.subs) = Len(r.key)

\* Every infix match the matcher can report on a piece of the text is
\* non-empty.
InfixNonEmpty ==
    \A a \in 0..Len(text) : \A b \in a..Len(text) :
        LET ms == find_infix(Slice(text, a, b))
        IN  \A k \in 1..Len(ms) : ms[k].end > ms[k].start

Consistent == EntriesConsistent /\ InfixNonEmpty

\* _attach_tokens has just returned to __call__ for the current run.
JustAttached == pc = "adjust" \/ (pc = "done" /\ ret = "done")

\* The spans appended for the current run.
RunSpans == SubSeq(container, base + 1, Len(container))

\* Concatenation of the substrings the spans c[k..] denote.
RECURSIVE Concat(_, _)
Concat(c, k) ==
    IF k > Len(c) THEN <<>> ELSE Substr(text, c[k]) \o Concat(c, k + 1)

\* The same, each span followed by the character after it when the span's
\* space_after is set and the text has such a character.
RECURSIVE ConcatSep(_, _)
ConcatSep(c, k) ==
    IF k > Len(c) THEN <<>>
    ELSE Substr(text, c[k])
         \o (IF c[k].space_after /\ EffEnd(text, c[k]) + 1 < Len(text)
             THEN <<text[EffEnd(text, c[k]) + 2]>>
             ELSE <<>>)
         \o ConcatSep(c, k + 1)

\* C1 as stated: when the call has returned, the substrings of the spans,
\* concatenated in container order, are the document (looked at where the
\* exception entries are consistent and the infix matches non-empty, so
\* that every span is where the cascade means it to be).
C1_Original == (pc = "done" /\ Consistent) => Concat(container, 1) = text

\* C1, amended: with consistent exception entries and non-empty infix
\* matches, the substrings of the spans, each followed by the one character
\* after it when its space_after is set (and the text has that character),
\* concatenated in container order, are the document.
C1_Reconstruction == (pc = "done" /\ Consistent) => ConcatSep(container, 1) = text

C1_Witness ==
    /\ pc = "done"
    /\ Consistent
    /\ Len(container) >= 3
    /\ \E k \in 1..Len(container) : container[k].space_after
    /\ \E k \in 1..Len(container) : container[k].is_space

\* C2 as stated: the first span starts at 0, each span starts right after
\* the one before it, and the last one ends at the last character (looked
\* at where the exception entries are consistent and the infix matches
\* non-empty).
C2_Original ==
    (pc = "done" /\ Consistent) =>
        /\ container # <<>>
        /\ container[1].start_pos = 0
        /\ \A k \in 1..(Len(container) - 1) :
               container[k].end_pos + 1 = container[k + 1].start_pos
        /\ EffEnd(text, container[Len(container)]) = Len(text) - 1

\* 1 when the span is followed by a separator that belongs to no span.
Sep(tm) == IF tm.space_after THEN 1 ELSE 0

\* C2, amended: with consistent exception entries and non-empty infix
\* matches, the first span starts at 0; the next span starts at end + 1
\* after a span whose space_after is false and at end + 2 after one whose
\* space_after is true; the last span ends at the last character, or at the
\* one before it when it is a non-white-space span with space_after true.
C2_Contiguity ==
    (pc = "done" /\ Consistent) =>
        /\ container # <<>>
        /\ container[1].start_pos = 0
        /\ \A k \in 1..(Len(container) - 1) :
               container[k + 1].start_pos
                   = container[k].end_pos + 1 + Sep(container[k])
        /\ LET last == container[Len(container)]
           IN  EffEnd(text, last)
                   = Len(text) - 1 - (IF last.is_space THEN 0 ELSE Sep(last))

C2_Witness ==
    /\ pc = "done"
    /\ Consistent
    /\ \E k \in 1..(Len(container) - 1) : container[k].space_after
    /\ \E k \in 1..(Len(container) - 1) : ~container[k].space_after


\* [a, b] is a maximal run of white space of the text (0-based, inclusive).
IsSpaceRun(a, b) ==
    /\ a <= b
    /\ \A k \in a..b : isspace(text[k + 1])
    /\ (a = 0 \/ ~isspace(text[a]))
    /\ (b = Len(text) - 1 \/ ~isspace(text[b + 2]))

\* [a, b] is a maximal run of other characters.
IsTokenRun(a, b) ==
    /\ a <= b
    /\ \A k \in a..b : ~isspace(text[k + 1])
    /\ (a = 0 \/ isspace(text[a]))
    /\ (b = Len(text) - 1 \/ isspace(text[b + 2]))

Positions == 0..(Len(text) - 1)

\* The is_space spans that start inside [a, b].
SpaceSpans(a, b) ==
    {k \in 1..Len(container) :
        container[k].is_space /\ container[k].start_pos \in a..b}

\* The number of spans the docstring of __call__ promises for a text of
\* letters and white space: one for each run of letters, one for a run of
\* white space at the start, one for each later run of two or more.
DocstringCount ==
    Cardinality({r \in Positions \X Positions : IsTokenRun(r[1], r[2])})
    + Cardinality({r \in Positions \X Positions :
                      IsSpaceRun(r[1], r[2]) /\ (r[1] = 0 \/ r[2] > r[1])})

\* C3: when the call has returned, a maximal white-space run [a, b] that
\* starts the document has exactly one is_space span, covering [a, b]; a
\* later run of one character has no is_space span and (with consistent
\* exception entries and non-empty infix matches, which keep the positions
\* right) the span ending at a - 1 has space_after = true; a later run of two
\* or more has exactly one is_space span, covering [a + 1, b]. Every is_space
\* span starts in a white-space run, and a text of letters and white space
\* gets the number of spans the docstring gives.
C3_WhitespaceTokens ==
    pc = "done" =>
        /\ \A a \in Positions : \A b \in Positions :
             IsSpaceRun(a, b) =>
                IF a = 0
                THEN \E k \in 1..Len(container) :
                        /\ SpaceSpans(a, b) = {k}
                        /\ container[k].start_pos = 0
                        /\ EffEnd(text, container[k]) = b
                ELSE IF a = b
                THEN /\ SpaceSpans(a, b) = {}
                     /\ Consistent =>
                           \E k \in 1..Len(container) :
                              /\ ~container[k].is_space
                              /\ EffEnd(text, container[k]) = a - 1
                              /\ container[k].space_after
                ELSE \E k \in 1..Len(container) :
                        /\ SpaceSpans(a, b) = {k}
                        /\ container[k].start_pos = a + 1
                        /\ EffEnd(text, container[k]) = b
        /\ \A k \in 1..Len(container) :
             container[k].is_space =>
                \E a \in Positions : \E b \in Positions :
                    IsSpaceRun(a, b) /\ container[k].start_pos \in a..b
        /\ ((\A k \in 1..Len(text) : text[k] \in {" ", "a"}) /\ Consistent)
               => Len(container) = DocstringCount

\* 'a  a': a run of two after a letter, three spans.
C3_Witness ==
    /\ pc = "done"
    /\ Consistent
    /\ \E a \in Positions : \E b \in Positions :
          IsSpaceRun(a, b) /\ a > 0 /\ b > a /\ b < Len(text) - 1
    /\ \A k \in 1..Len(text) : text[k] \in {" ", "a"}
    /\ Len(container) = 3

\* When the span container[k] ends inside the text, the character after it.
FollowedBySpace(k) ==
    /\ EffEnd(text, container[k]) + 1 < Len(text)
    /\ isspace(text[EffEnd(text, container[k]) + 2])

\* C4: when the call has returned, every span has space_after = true
\* exactly when there is a character right after the span and it is white
\* space (here for the configurations with consistent exception entries and
\* non-empty infix matches, where the spans' positions are right).
C4_SpaceAfter ==
    (pc = "done" /\ Consistent) =>
        \A k \in 1..Len(container) :
            container[k].space_after <=> FollowedBySpace(k)

\* C5: the call on the empty document returns normally with zero spans.
C5_EmptyDocument ==
    (text = <<>> /\ pc # "start") => (pc = "done" /\ container = <<>>)

\* The document is not empty and all white space.
AllSpace == Len(text) >= 1 /\ \A k \in 1..Len(text) : isspace(text[k])

\* C6: for a document of white space only, _tokenize is never entered, the
\* call does not fail, at most one span is ever in the container, and when
\* the call has returned the container holds exactly one span, with
\* is_space = true, start 0 and an end that denotes the last character.
C6_AllWhitespace ==
    AllSpace =>
        /\ pc \notin {"affix", "attach", "adjust", "error"}
        /\ Len(container) <= 1
        /\ pc = "done" =>
              /\ Len(container) = 1
              /\ container[1].is_space
              /\ container[1].start_pos = 0
              /\ EffEnd(text, container[1]) = Len(text) - 1

C6_Witness == AllSpace /\ Len(text) >= 2 /\ pc = "done" /\ Len(container) = 1


\* C7: the while loop of _split_affixes never makes more iterations than
\* the run has characters: every iteration detaches at least one character,
\* so the iterations made plus the characters left never exceed the run's
\* length, also with matchers that match the empty string.
C7_AffixTermination ==
    /\ iters <= run_len
    /\ pc = "affix" => iters + Len(substring) <= run_len

\* Two iterations with a prefix pattern that matched the empty string.
C7_Witness ==
    /\ pc = "attach"
    /\ iters >= 2
    /\ prefix_search = "^q*"
    /\ prefixes = <<>>
    /\ Len(suffixes) >= 2

SamePlace(x, y) == x.start_pos = y.start_pos /\ x.end_pos = y.end_pos

\* C8: with consistent exception entries and non-empty infix matches, the
\* spans _tokenize has appended for the run [run_start, run_start + run_len
\* - 1] start at run_start, end at the run's end, follow each other without
\* gap or overlap in increasing start order, begin with the prefix spans in
\* the order found and end with the suffix spans in reverse order found.
C8_ExactCover ==
    (JustAttached /\ Consistent) =>
        LET s == RunSpans
            n == Len(s)
            np == Len(prefixes)
            ns == Len(suffixes)
        IN  /\ n >= 1
            /\ n >= np + ns
            /\ s[1].start_pos = run_start
            /\ s[n].end_pos = run_start + run_len - 1
            /\ \A k \in 1..n : s[k].start_pos <= s[k].end_pos
            /\ \A k \in 1..(n - 1) :
                  /\ s[k].end_pos + 1 = s[k + 1].start_pos
                  /\ s[k].start_pos < s[k + 1].start_pos
            /\ \A k \in 1..np : SamePlace(s[k], prefixes[k])
            /\ \A k \in 1..ns : SamePlace(s[n - ns + k], suffixes[ns + 1 - k])

\* A prefix, the two spans of the exception entry and a suffix.
C8_Witness ==
    /\ JustAttached
    /\ Consistent
    /\ Len(prefixes) >= 1
    /\ Len(suffixes) >= 1
    /\ outcome = "special"
    /\ Len(RunSpans) = 4

\* C9: when the substring resolved through the exception table has an
\* entry whose ORTH lengths do not sum to the key's length, then once
\* _split_affixes and _attach_tokens are through with the run the call has
\* failed and no span has been appended for the entry.
C9_MismatchRejected ==
    (/\ outcome = "special"
     /\ OrthLen(SpecialCase(core)) # Len(core)
     /\ pc # "attach") =>
        /\ pc = "error"
        /\ Len(container) = base

NonEmptyMatch(m) == m.end > m.start

\* The spans of the core substring when zero-length matches count as absent.
InfixExpected ==
    LET ms == SelectSeq(find_infix(core), NonEmptyMatch)
    IN  IF ms # <<>> THEN InfixTokens(core, ms, spos)
        ELSE IF core = <<>> THEN <<>>
        ELSE <<TokenMeta(spos, spos + Len(core) - 1, FALSE, FALSE)>>

\* C10: the spans made for a core substring are those made when the
\* zero-length infix matches are left out of the matcher's result; with
\* zero-length matches only, the one span [pos, pos + len - 1].
C10_ZeroLengthInfixIgnored == outcome = "infix" => infixes = InfixExpected


\* The suffix found last, and the substring it was detached from: the
\* characters from the current pos up to the suffix's end.
LastSuffix(suf) == suf[Len(suf)]
BeforeSuffix(p, suf) == Slice(text, p, LastSuffix(suf).end_pos + 1)

\* What C11 asks of one step: a prefix is detached only from a
\* substring that is no exception key, a suffix is detached only from a
\* substring that is no exception key, and a step taken while the current
\* substring is an exception key detaches nothing and resolves the
\* substring through the exception table.
C11_Step ==
    /\ Len(prefixes') > Len(prefixes) => ~InSpecialCases(substring)
    /\ Len(suffixes') > Len(suffixes) =>
          ~InSpecialCases(BeforeSuffix(spos', suffixes'))
    /\ (pc = "affix" /\ InSpecialCases(substring)) =>
          /\ prefixes' = prefixes
          /\ suffixes' = suffixes
          /\ outcome' = "special"
          /\ special_tokens' = get_special_cases_token_meta(substring, spos)

\* C11: every step of the call is such a step (exception precedence).
C11_ExceptionPrecedence == [][C11_Step]_vars

\* A prefix was detached, what remained was the exception key, which ends
\* with a character the suffix pattern matches, and it was resolved through
\* the table with no suffix detached.
C11_Witness ==
    /\ pc = "attach"
    /\ outcome = "special"
    /\ Len(prefixes) >= 1
    /\ suffixes = <<>>
    /\ find_suffix(core) # 0


\* The boundary flag of the current run: a character follows the run (it
\* then is the white space that closed it).
RunClosedBySpace ==
    /\ run_start + run_len < Len(text)
    /\ isspace(text[run_start + run_len + 1])

\* C12: when _attach_tokens has returned, the last span appended for the
\* run has space_after equal to the run's boundary flag, and every other
\* span appended for the run has space_after = false.
C12_TrailingSpaceFixUp ==
    JustAttached =>
        LET s == RunSpans
            n == Len(s)
        IN  /\ \A k \in 1..(n - 1) : ~s[k].space_after
            /\ n >= 1 => (s[n].space_after <=> RunClosedBySpace)
            /\ space_after <=> RunClosedBySpace

\* A run of two or more spans closed by white space.
C12_Witness ==
    /\ JustAttached
    /\ Len(RunSpans) >= 2
    /\ RunClosedBySpace
    /\ RunSpans[Len(RunSpans)].space_after

\* How many of the three outcomes of lines 336-345 are non-empty when
\* _split_affixes returns: exception spans, remaining substring, infix spans.
Outcomes ==
    (IF special_tokens # <<>> THEN 1 ELSE 0)
    + (IF substring # <<>> THEN 1 ELSE 0)
    + (IF infixes # <<>> THEN 1 ELSE 0)

\* C13 as stated: when _split_affixes has returned, exactly one of the
\* three outcomes is non-empty (looked at where the exception entries are
\* consistent and the infix matches non-empty).
C13_Original == (pc = "attach" /\ Consistent) => Outcomes = 1

\* What the prefixes and suffixes left of the run is a key whose entry
\* lists no sub-token.
EmptyEntry == InSpecialCases(core) /\ SpecialCase(core) = <<>>

\* C13, amended: when _split_affixes has returned, at most one of the three
\* outcomes is non-empty; none is non-empty exactly when the detached
\* prefixes and suffixes left nothing of the run (at least one was then
\* detached) or what they left is a key with an empty entry, and exactly
\* one is non-empty otherwise.
C13_AtMostOneOutcome ==
    pc = "attach" =>
        /\ Outcomes <= 1
        /\ Outcomes = 0 <=> (core = <<>> \/ EmptyEntry)
        /\ core = <<>> => Len(prefixes) + Len(suffixes) >= 1

\* The prefixes and suffixes took the whole run.
C13_Witness ==
    /\ pc = "attach"
    /\ Consistent
    /\ Outcomes = 0
    /\ Len(prefixes) >= 1
    /\ Len(suffixes) >= 1


\* The positions of the text a span stands for.
Covered(tm) == tm.start_pos..EffEnd(text, tm)

\* Position j is the one white-space character skipped after a span whose
\* space_after is true.
IsSeparator(j) ==
    /\ isspace(text[j + 1])
    /\ \E k \in 1..Len(container) :
          /\ container[k].space_after
          /\ EffEnd(text, container[k]) + 1 = j

\* C14: for a non-empty text, with consistent exception entries and
\* non-empty infix matches, the document returned has its first span at 0
\* and span starts strictly increasing; after a span with space_after false
\* the next starts at end + 1, after one with space_after true at end + 2,
\* the character skipped being white space; and every character of the
\* text is inside a span or is such a skipped separator.
C14_SpaceAwareContiguity ==
    (pc = "done" /\ Consistent) =>
        /\ container # <<>>
        /\ container[1].start_pos = 0
        /\ \A k \in 1..(Len(container) - 1) :
              LET cur == container[k]
                  nxt == container[k + 1]
              IN  /\ cur.start_pos < nxt.start_pos
                  /\ cur.end_pos # None
                  /\ IF cur.space_after
                     THEN /\ nxt.start_pos = cur.end_pos + 2
                          /\ isspace(text[cur.end_pos + 2])
                     ELSE nxt.start_pos = cur.end_pos + 1
        /\ \A j \in Positions :
              \/ \E k \in 1..Len(container) : j \in Covered(container[k])
              \/ IsSeparator(j)

\* A document with a skipped separator between two spans and two spans
\* that touch.
C14_Witness ==
    /\ pc = "done"
    /\ Consistent
    /\ \E j \in Positions :
          /\ IsSeparator(j)
          /\ \A k \in 1..Len(container) : j \notin Covered(container[k])
          /\ j < Len(text) - 1
    /\ \E k \in 1..(Len(container) - 1) :
          /\ ~container[k].space_after
          /\ ~container[k].is_space
          /\ ~container[k + 1].is_space


\* What C15 asks of the step that attaches the spans of a run: it does not
\* fail, and the spans the container held before it are all still there,
\* unchanged, at the front of the container.
C15_Step ==
    pc = "attach" =>
        /\ pc' # "error"
        /\ Len(container') >= Len(container)
        /\ SubSeq(container', 1, Len(container)) = container

\* C15: processing a run only appends to the container, for every exception
\* table: no earlier span is removed or changed, and an empty container is
\* no failure.
C15_AppendOnly == [][C15_Step]_vars

====
